---- MODULE Spec2Model ----
(***************************************************************************)
(* Order monitoring and trigger execution of pancaketrade:                 *)
(* OrderWatcher (src/pancaketrade/watchers/order.py).                      *)
(*                                                                         *)
(* Two orders of one token are watched.  Each price sample is evaluated by *)
(* price_update; a trigger calls close(), which clears active and starts   *)
(* the buy or the sell thread.  The threads run step by step, interleaved  *)
(* with each other and with further price samples.                         *)
(*                                                                         *)
(* Numbers: quotes, balances, amounts and token counts are integers (whole *)
(* units).  The result of a Decimal division is kept as an integer number  *)
(* of 1/DecUnit, rounded half-even as the decimal context rounds.          *)
(***************************************************************************)
EXTENDS Integers, Sequences, FiniteSets, TLC

\* ---------------------------------------------------------------- bounds
\* Quotes of a price sample range over 0..MaxPrice (0: price unavailable).
MaxPrice == 5
\* Balance of the token in the wallet when the bot starts.
StartBalanceVals == {0, 1}
\* Tokens a successful buy swap returns.
TokensOutVals == {1, 2}
\* Failures of the store and of the approval in one run: at most MaxFaults.
MaxFaults == 1

\* The two orders of the token.
OrderIds == {1, 2}
\* Python's None.
None == 0 - 1
\* Limit prices an order is created with (None: market order).
LimitVals == {None, 3}
\* Trailing stops (percent) an order is created with.
TrailVals == {None, 0, 25}
\* Amount of an order: BNB spent by a buy, tokens sold by a sell.
AmountVals == {1}
\* Effective buy prices the token record starts with, in 1/DecUnit.
StartPriceVals == {None, 2000}
\* The callers of price_update that may be inside a call at one time.
Callers == {1, 2}

\* Scale of a Decimal quotient: results are multiples of 1/DecUnit.
DecUnit == 10 * 10 * 10

VARIABLES
    \* the orders of the token
    orders,
    \* order configuration, set by __init__ and never changed
    type, limit_price, above, trailing_stop, amount,
    \* run state of the order
    active, finished, min_price, max_price,
    \* the execution thread of the order: position and locals
    pc, threads, balance_before, buy_price_before, tokens_out, is_approved,
    \* the token: in-memory record, stored record, wallet balance
    effective_buy_price, stored_buy_price, balance,
    \* the store: order records, open connections per thread
    order_stored, db_open,
    \* notification sink, per order
    notices,
    \* the return path the last price_update of the order took
    path,
    \* the token as it was when the bot started
    start_balance, start_price,
    \* failures of the store and of the approval so far
    faults,
    \* get_token_status: its position, the line built for each order, and the
    \* tracking state each order had when the report was started
    status_pc, status, at_start,
    \* per caller of price_update, the order whose test of active it has passed
    callers

config == <<orders, type, limit_price, above, trailing_stop, amount>>
runstate == <<active, finished, min_price, max_price>>
locals == <<balance_before, buy_price_before, tokens_out, is_approved>>
token == <<effective_buy_price, stored_buy_price, balance>>
start == <<start_balance, start_price>>
report == <<status_pc, status, at_start>>
vars == <<config, runstate, pc, threads, locals, token, order_stored, db_open,
          notices, path, start, faults, report, callers>>

\* ------------------------------------------------------------- arithmetic
\* n / d rounded to the nearest integer, ties to even (ROUND_HALF_EVEN).
RoundDiv(n, d) ==
    LET q == n \div d
        r == n % d
    IN  IF 2 * r > d \/ (2 * r = d /\ q % 2 = 1) THEN q + 1 ELSE q

\* Decimal(a) / Decimal(b) for whole a, b, in 1/DecUnit.
DecDiv(a, b) == RoundDiv(a * DecUnit, b)

\* Truthy as the test "is not None": 0 counts as set.
Truthy_not_none(x) == x # None

\* Python truthiness of an Optional[int]: None and 0 are false.
Truthy(x) == x # None /\ x # 0

\* ------------------------------------------------------------------- Init
\* The state after the watchers are constructed (__init__, lines 14-35): the
\* token is watched with one order of any kind, or with two market orders
\* (no limit price, no trailing stop, mode below).
Market(o) == limit_price[o] = None /\ trailing_stop[o] = None /\ ~above[o]

Init ==
    /\ orders \in {{1}, OrderIds}
    /\ type \in [orders -> {"buy", "sell"}]
    /\ limit_price \in [orders -> LimitVals]
    /\ above \in [orders -> BOOLEAN]
    /\ trailing_stop \in [orders -> TrailVals]
    /\ amount \in [orders -> AmountVals]
    /\ orders = OrderIds => \A o \in orders : Market(o)
    /\ active = [o \in orders |-> TRUE]
    /\ finished = [o \in orders |-> FALSE]
    /\ min_price = [o \in orders |-> None]
    /\ max_price = [o \in orders |-> None]
    /\ pc = [o \in orders |-> "idle"]
    /\ threads = [o \in orders |-> 0]
    /\ balance_before = [o \in orders |-> None]
    /\ buy_price_before = [o \in orders |-> None]
    /\ tokens_out = [o \in orders |-> None]
    /\ is_approved = [o \in orders |-> None]
    /\ start_balance \in StartBalanceVals
    /\ start_price \in StartPriceVals
    /\ balance = start_balance
    /\ effective_buy_price = start_price
    /\ stored_buy_price = start_price
    /\ order_stored = [o \in orders |-> TRUE]
    /\ db_open = [o \in orders |-> 0]
    /\ notices = [o \in orders |-> <<>>]
    /\ path = [o \in orders |-> "new"]
    /\ faults = 0
    /\ status_pc = "idle"
    /\ status = [o \in orders |-> "unread"]
    /\ at_start = [o \in orders |-> FALSE]
    /\ callers = [c \in Callers |-> None]

\* ----------------------------------------------------------- price_update
\* start_in_thread(target): the target runs on a thread of its own; the caller
\* goes on without waiting for it.
start_in_thread(o, target) ==
    /\ threads' = [threads EXCEPT ![o] = @ + 1]
    /\ pc' = [pc EXCEPT ![o] = target]

\* close() with the clearing of active left out.
close_keeps_active(o, posted) ==
    /\ active' = active
    /\ notices' = [notices EXCEPT ![o] =
            Append(posted, IF type[o] = "buy" THEN "trying_buy" ELSE "trying_sell")]
    /\ start_in_thread(o, IF type[o] = "buy" THEN "buy" ELSE "sell")

\* close(): clear active, post the notice, start the thread.  posted: the
\* notices of the order when close() is entered.
close(o, posted) ==
    /\ active' = [active EXCEPT ![o] = FALSE]
    /\ notices' = [notices EXCEPT ![o] =
            Append(posted, IF type[o] = "buy" THEN "trying_buy" ELSE "trying_sell")]
    /\ start_in_thread(o, IF type[o] = "buy" THEN "buy" ELSE "sell")

\* EffectiveLimit with a missing limit read as zero.
EffectiveLimit_zero(o, quote) ==
    IF limit_price[o] # None THEN limit_price[o] ELSE 0

\* The limit the sample is compared with: the quote itself without a limit.
EffectiveLimit(o, quote) ==
    IF limit_price[o] # None THEN limit_price[o] ELSE quote

\* RiseExceeds with >= for >.
RiseExceeds_atleast(o, buy_price, min) ==
    (DecDiv(buy_price, min) - DecUnit) * 100 >= trailing_stop[o] * DecUnit

\* rise > trailing_stop, rise = ((buy_price / min_price) - 1) * 100.
RiseExceeds(o, buy_price, min) ==
    (DecDiv(buy_price, min) - DecUnit) * 100 > trailing_stop[o] * DecUnit

\* DropExceeds with >= for >.
DropExceeds_atleast(o, sell_price, max) ==
    (DecUnit - DecDiv(sell_price, max)) * 100 >= trailing_stop[o] * DecUnit

\* drop > trailing_stop, drop = (1 - (sell_price / max_price)) * 100.
DropExceeds(o, sell_price, max) ==
    (DecUnit - DecDiv(sell_price, max)) * 100 > trailing_stop[o] * DecUnit

\* BuyBranch with the test for a zero quote left out.
BuyBranch_nozero(o, buy_price) ==
    IF /\ trailing_stop[o] = None
       /\ ~above[o]
       /\ buy_price <= EffectiveLimit(o, buy_price) THEN "limit"
    ELSE IF /\ Truthy(trailing_stop[o])
            /\ ~above[o]
            /\ (buy_price <= EffectiveLimit(o, buy_price) \/ min_price[o] # None)
         THEN "trailing"
    ELSE "hold"

\* BuyBranch with tracking started on any sample with a quote, the limit
\* condition not tested.
BuyBranch_tracks_early(o, buy_price) ==
    IF buy_price = 0 THEN "zero"
    ELSE IF /\ trailing_stop[o] = None
            /\ ~above[o]
            /\ buy_price <= EffectiveLimit(o, buy_price) THEN "limit"
    ELSE IF Truthy(trailing_stop[o]) /\ ~above[o] THEN "trailing"
    ELSE "hold"

\* BuyBranch with the limit buy triggered below the limit only (< for <=).
BuyBranch_strict(o, buy_price) ==
    IF buy_price = 0 THEN "zero"
    ELSE IF /\ trailing_stop[o] = None
            /\ ~above[o]
            /\ buy_price < EffectiveLimit(o, buy_price) THEN "limit"
    ELSE IF /\ Truthy(trailing_stop[o])
            /\ ~above[o]
            /\ (buy_price <= EffectiveLimit(o, buy_price) \/ min_price[o] # None)
         THEN "trailing"
    ELSE "hold"

\* BuyBranch with mode above handled like a sell: quote >= limit triggers.
BuyBranch_above(o, buy_price) ==
    IF buy_price = 0 THEN "zero"
    ELSE IF /\ trailing_stop[o] = None
            /\ ~above[o]
            /\ buy_price <= EffectiveLimit(o, buy_price) THEN "limit"
    ELSE IF /\ trailing_stop[o] = None
            /\ above[o]
            /\ buy_price >= EffectiveLimit(o, buy_price) THEN "limit"
    ELSE IF /\ Truthy(trailing_stop[o])
            /\ ~above[o]
            /\ (buy_price <= EffectiveLimit(o, buy_price) \/ min_price[o] # None)
         THEN "trailing"
    ELSE "hold"

\* The branch price_update_buy takes on a sample.
BuyBranch(o, buy_price) ==
    IF buy_price = 0 THEN "zero"
    ELSE IF /\ trailing_stop[o] = None
            /\ ~above[o]
            /\ buy_price <= EffectiveLimit(o, buy_price) THEN "limit"
    ELSE IF /\ Truthy(trailing_stop[o])
            /\ ~above[o]
            /\ (buy_price <= EffectiveLimit(o, buy_price) \/ min_price[o] # None)
         THEN "trailing"
    ELSE "hold"

\* SellBranch with the stop loss triggered below the limit only (< for <=).
SellBranch_strict(o, sell_price) ==
    IF sell_price = 0 THEN "zero"
    ELSE IF /\ trailing_stop[o] = None
            /\ ~above[o]
            /\ sell_price < EffectiveLimit(o, sell_price) THEN "limit"
    ELSE IF /\ trailing_stop[o] = None
            /\ above[o]
            /\ sell_price >= EffectiveLimit(o, sell_price) THEN "limit"
    ELSE IF /\ Truthy(trailing_stop[o])
            /\ above[o]
            /\ (sell_price >= EffectiveLimit(o, sell_price) \/ max_price[o] # None)
         THEN "trailing"
    ELSE "hold"

\* SellBranch with the trailing stop tracked in mode below as well.
SellBranch_any_mode(o, sell_price) ==
    IF sell_price = 0 THEN "zero"
    ELSE IF /\ trailing_stop[o] = None
            /\ ~above[o]
            /\ sell_price <= EffectiveLimit(o, sell_price) THEN "limit"
    ELSE IF /\ trailing_stop[o] = None
            /\ above[o]
            /\ sell_price >= EffectiveLimit(o, sell_price) THEN "limit"
    ELSE IF /\ Truthy(trailing_stop[o])
            /\ (sell_price >= EffectiveLimit(o, sell_price) \/ max_price[o] # None)
         THEN "trailing"
    ELSE "hold"

\* The branch price_update_sell takes on a sample.
SellBranch(o, sell_price) ==
    IF sell_price = 0 THEN "zero"
    ELSE IF /\ trailing_stop[o] = None
            /\ ~above[o]
            /\ sell_price <= EffectiveLimit(o, sell_price) THEN "limit"
    ELSE IF /\ trailing_stop[o] = None
            /\ above[o]
            /\ sell_price >= EffectiveLimit(o, sell_price) THEN "limit"
    ELSE IF /\ Truthy(trailing_stop[o])
            /\ above[o]
            /\ (sell_price >= EffectiveLimit(o, sell_price) \/ max_price[o] # None)
         THEN "trailing"
    ELSE "hold"

\* The guard of price_update left out.
Ignores_never(o) == FALSE

\* price_update, lines 79-80: an order that is not active returns at once.
Ignores(o) == ~active[o]

\* A sample that returns without touching the order.
Skip(o, how) ==
    /\ path' = [path EXCEPT ![o] = how]
    /\ UNCHANGED <<active, min_price, max_price, notices, threads, pc>>

\* price_update_buy with the tracked minimum set to every tracked sample's
\* quote, the rise still taken from the minimum before the sample.
price_update_buy_follows(o, buy_price) ==
    LET branch == BuyBranch(o, buy_price)
        first == min_price[o] = None
        min == IF first THEN buy_price ELSE min_price[o]
        posted == IF first THEN Append(notices[o], "activated") ELSE notices[o]
    IN  CASE branch = "zero" -> Skip(o, "zero")
          [] branch = "hold" -> Skip(o, "hold")
          [] branch = "limit" ->
                /\ path' = [path EXCEPT ![o] = "triggered"]
                /\ close(o, notices[o])
                /\ UNCHANGED <<min_price, max_price>>
          [] branch = "trailing" /\ RiseExceeds(o, buy_price, min) ->
                /\ path' = [path EXCEPT ![o] = "triggered"]
                /\ min_price' = [min_price EXCEPT ![o] = buy_price]
                /\ close(o, posted)
                /\ UNCHANGED max_price
          [] OTHER ->
                /\ path' = [path EXCEPT ![o] = IF first THEN "activated" ELSE "moved"]
                /\ min_price' = [min_price EXCEPT ![o] = buy_price]
                /\ notices' = [notices EXCEPT ![o] = posted]
                /\ UNCHANGED <<active, max_price, threads, pc>>

price_update_buy(o, buy_price) ==
    LET branch == BuyBranch(o, buy_price)
        first == min_price[o] = None
        min == IF first THEN buy_price ELSE min_price[o]
        posted == IF first THEN Append(notices[o], "activated") ELSE notices[o]
    IN  CASE branch = "zero" -> Skip(o, "zero")
          [] branch = "hold" -> Skip(o, "hold")
          [] branch = "limit" ->
                /\ path' = [path EXCEPT ![o] = "triggered"]
                /\ close(o, notices[o])
                /\ UNCHANGED <<min_price, max_price>>
          [] branch = "trailing" /\ buy_price < min ->
                /\ path' = [path EXCEPT ![o] = "moved"]
                /\ min_price' = [min_price EXCEPT ![o] = buy_price]
                /\ notices' = [notices EXCEPT ![o] = posted]
                /\ UNCHANGED <<active, max_price, threads, pc>>
          [] branch = "trailing" /\ ~(buy_price < min) /\ RiseExceeds(o, buy_price, min) ->
                /\ path' = [path EXCEPT ![o] = "triggered"]
                /\ min_price' = [min_price EXCEPT ![o] = min]
                /\ close(o, posted)
                /\ UNCHANGED max_price
          [] OTHER ->
                /\ path' = [path EXCEPT ![o] = IF first THEN "activated" ELSE "tracking"]
                /\ min_price' = [min_price EXCEPT ![o] = min]
                /\ notices' = [notices EXCEPT ![o] = posted]
                /\ UNCHANGED <<active, max_price, threads, pc>>

price_update_sell(o, sell_price) ==
    LET branch == SellBranch(o, sell_price)
        first == max_price[o] = None
        max == IF first THEN sell_price ELSE max_price[o]
        posted == IF first THEN Append(notices[o], "activated") ELSE notices[o]
    IN  CASE branch = "zero" -> Skip(o, "zero")
          [] branch = "hold" -> Skip(o, "hold")
          [] branch = "limit" ->
                /\ path' = [path EXCEPT ![o] = "triggered"]
                /\ close(o, notices[o])
                /\ UNCHANGED <<min_price, max_price>>
          [] branch = "trailing" /\ sell_price > max ->
                /\ path' = [path EXCEPT ![o] = "moved"]
                /\ max_price' = [max_price EXCEPT ![o] = sell_price]
                /\ notices' = [notices EXCEPT ![o] = posted]
                /\ UNCHANGED <<active, min_price, threads, pc>>
          [] branch = "trailing" /\ ~(sell_price > max) /\ DropExceeds(o, sell_price, max) ->
                /\ path' = [path EXCEPT ![o] = "triggered"]
                /\ max_price' = [max_price EXCEPT ![o] = max]
                /\ close(o, posted)
                /\ UNCHANGED min_price
          [] OTHER ->
                /\ path' = [path EXCEPT ![o] = IF first THEN "activated" ELSE "tracking"]
                /\ max_price' = [max_price EXCEPT ![o] = max]
                /\ notices' = [notices EXCEPT ![o] = posted]
                /\ UNCHANGED <<active, min_price, threads, pc>>

\* price_update(sell_price, buy_price, ...) of order o, evaluated in one piece.
price_update(o, sell_price, buy_price) ==
    /\ IF Ignores(o) THEN Skip(o, IF finished[o] THEN "finished" ELSE "inactive")
       ELSE IF type[o] = "buy" THEN price_update_buy(o, buy_price)
       ELSE price_update_sell(o, sell_price)
    /\ UNCHANGED <<config, finished, locals, token, order_stored, db_open, start, faults,
                   report, callers>>

\* The quotes a sample delivered to order o ranges over.  An inactive order
\* returns before it reads the sample (line 79), so one sample stands for all.
Quotes(o) == IF Ignores(o) THEN {0} ELSE 0..MaxPrice

PriceUpdate == \E o \in orders : \E sell_price, buy_price \in Quotes(o) :
    price_update(o, sell_price, buy_price)

\* ------------------------------------------------------------ buy thread
\* The steps of a thread leave the watcher's side alone.
ThreadFrame ==
    UNCHANGED <<config, active, min_price, max_price, threads, path, start, report, callers>>

\* A call of the store or of the approval that fails, and one that does not.
Fails == faults < MaxFaults /\ faults' = faults + 1
Works == UNCHANGED faults

\* buy, lines 168-169: read the balance and the token's effective buy price.
BuyRead(o) ==
    /\ pc[o] = "buy"
    /\ balance_before' = [balance_before EXCEPT ![o] = balance]
    /\ buy_price_before' = [buy_price_before EXCEPT ![o] = effective_buy_price]
    /\ pc' = [pc EXCEPT ![o] = "buy_swap"]
    /\ ThreadFrame
    /\ Works
    /\ UNCHANGED <<finished, tokens_out, is_approved, token, order_stored, db_open, notices>>

\* BuySwapFails with lines 187-188 not commented out: the order is removed and
\* marked finished after the failure notice.
BuySwapFails_removes(o) ==
    /\ pc[o] = "buy_swap"
    /\ notices' = [notices EXCEPT ![o] = Append(@, "failed_deleted")]
    /\ pc' = [pc EXCEPT ![o] = "remove"]
    /\ ThreadFrame
    /\ Works
    /\ UNCHANGED <<finished, locals, token, order_stored, db_open>>

\* buy, lines 170-189: a failed swap posts the failure notice and returns.
BuySwapFails(o) ==
    /\ pc[o] = "buy_swap"
    /\ notices' = [notices EXCEPT ![o] = Append(@, "failed_deleted")]
    /\ pc' = [pc EXCEPT ![o] = "failed"]
    /\ ThreadFrame
    /\ Works
    /\ UNCHANGED <<finished, locals, token, order_stored, db_open>>

\* buy, lines 170-177 and 190-191: the swap succeeds, the store is connected.
BuySwapSucceeds(o) ==
    /\ pc[o] = "buy_swap"
    /\ \E t \in TokensOutVals :
          /\ tokens_out' = [tokens_out EXCEPT ![o] = t]
          /\ balance' = balance + t
    /\ db_open' = [db_open EXCEPT ![o] = @ + 1]
    /\ pc' = [pc EXCEPT ![o] = "buy_save"]
    /\ ThreadFrame
    /\ Works
    /\ UNCHANGED <<finished, balance_before, buy_price_before, is_approved,
                   effective_buy_price, stored_buy_price, order_stored, notices>>

\* effective_price = get_human_amount() / tokens_out, line 190.
EffectivePrice(o) == DecDiv(amount[o], tokens_out[o])

\* NewBuyPrice as the plain mean of the previous and the effective price.
NewBuyPrice_unweighted(before, bal, out, price) ==
    IF before # None
    THEN RoundDiv(before + price, 2)
    ELSE price

\* The value assigned to token_record.effective_buy_price, lines 194-200.
NewBuyPrice(before, bal, out, price) ==
    IF before # None
    THEN RoundDiv(bal * before + out * price, bal + out)
    ELSE price

\* buy, lines 192-201: the price is assigned and saved.
BuySave(o) ==
    /\ pc[o] = "buy_save"
    /\ LET new == NewBuyPrice(buy_price_before[o], balance_before[o],
                              tokens_out[o], EffectivePrice(o))
       IN  /\ effective_buy_price' = new
           /\ stored_buy_price' = new
    /\ pc' = [pc EXCEPT ![o] = "buy_close"]
    /\ ThreadFrame
    /\ Works
    /\ UNCHANGED <<finished, locals, balance, order_stored, db_open, notices>>

\* BuySaveFails with the new price written to the store before the failure.
BuySaveFails_stores(o) ==
    /\ pc[o] = "buy_save"
    /\ \E assigned \in BOOLEAN :
          /\ effective_buy_price' =
                IF assigned
                THEN NewBuyPrice(buy_price_before[o], balance_before[o],
                                 tokens_out[o], EffectivePrice(o))
                ELSE effective_buy_price
          /\ stored_buy_price' = effective_buy_price'
    /\ notices' = [notices EXCEPT ![o] = Append(@, "price_update_failed")]
    /\ pc' = [pc EXCEPT ![o] = "buy_close"]
    /\ ThreadFrame
    /\ Fails
    /\ UNCHANGED <<finished, locals, balance, order_stored, db_open>>

\* BuySaveFails with the buy ended by the failure, after the notice and the
\* close of the connection.
BuySaveFails_returns(o) ==
    /\ pc[o] = "buy_save"
    /\ \E assigned \in BOOLEAN :
          effective_buy_price' =
              IF assigned
              THEN NewBuyPrice(buy_price_before[o], balance_before[o],
                               tokens_out[o], EffectivePrice(o))
              ELSE effective_buy_price
    /\ notices' = [notices EXCEPT ![o] = Append(@, "price_update_failed")]
    /\ db_open' = [db_open EXCEPT ![o] = @ - 1]
    /\ pc' = [pc EXCEPT ![o] = "failed"]
    /\ ThreadFrame
    /\ Fails
    /\ UNCHANGED <<finished, locals, stored_buy_price, balance, order_stored>>

\* buy, lines 192-207: the store raises; entering the transaction raises before
\* the assignment (assigned = FALSE), save() raises after it (assigned = TRUE).
BuySaveFails(o) ==
    /\ pc[o] = "buy_save"
    /\ \E assigned \in BOOLEAN :
          effective_buy_price' =
              IF assigned
              THEN NewBuyPrice(buy_price_before[o], balance_before[o],
                               tokens_out[o], EffectivePrice(o))
              ELSE effective_buy_price
    /\ notices' = [notices EXCEPT ![o] = Append(@, "price_update_failed")]
    /\ pc' = [pc EXCEPT ![o] = "buy_close"]
    /\ ThreadFrame
    /\ Fails
    /\ UNCHANGED <<finished, locals, stored_buy_price, balance, order_stored, db_open>>

\* buy, lines 208-222: the connection is closed, the success notices posted.
BuyClose(o) ==
    /\ pc[o] = "buy_close"
    /\ db_open' = [db_open EXCEPT ![o] = @ - 1]
    /\ notices' = [notices EXCEPT ![o] = @ \o <<"closing", "got">>]
    /\ pc' = [pc EXCEPT ![o] = "buy_approve"]
    /\ ThreadFrame
    /\ Works
    /\ UNCHANGED <<finished, locals, token, order_stored>>

\* BuyApprove with a failed approval ending the buy before remove_order.
BuyApprove_returns(o) ==
    /\ pc[o] = "buy_approve"
    /\ \E approved, res \in BOOLEAN :
          /\ is_approved' = [is_approved EXCEPT ![o] = IF approved THEN 1 ELSE 0]
          /\ notices' = [notices EXCEPT ![o] =
                IF approved THEN @
                ELSE @ \o <<"approving", IF res THEN "approval_ok" ELSE "approval_failed">>]
          /\ IF ~approved /\ ~res THEN Fails ELSE Works
          /\ pc' = [pc EXCEPT ![o] = IF ~approved /\ ~res THEN "failed" ELSE "remove"]
    /\ ThreadFrame
    /\ UNCHANGED <<finished, balance_before, buy_price_before, tokens_out, token,
                   order_stored, db_open>>

\* buy, lines 223-241: net.is_approved answers (1 approved, 0 not); when not
\* approved the approval for the later sell is requested and its result posted.
BuyApprove(o) ==
    /\ pc[o] = "buy_approve"
    /\ \E approved, res \in BOOLEAN :
          /\ is_approved' = [is_approved EXCEPT ![o] = IF approved THEN 1 ELSE 0]
          /\ notices' = [notices EXCEPT ![o] =
                IF approved THEN @
                ELSE @ \o <<"approving", IF res THEN "approval_ok" ELSE "approval_failed">>]
          /\ IF ~approved /\ ~res THEN Fails ELSE Works
    /\ pc' = [pc EXCEPT ![o] = "remove"]
    /\ ThreadFrame
    /\ UNCHANGED <<finished, balance_before, buy_price_before, tokens_out, token,
                   order_stored, db_open>>

\* ----------------------------------------------------------- sell thread
\* sell, line 246: read the balance.
SellRead(o) ==
    /\ pc[o] = "sell"
    /\ balance_before' = [balance_before EXCEPT ![o] = balance]
    /\ pc' = [pc EXCEPT ![o] = "sell_swap"]
    /\ ThreadFrame
    /\ Works
    /\ UNCHANGED <<finished, buy_price_before, tokens_out, is_approved, token, order_stored,
                   db_open, notices>>

\* sell, lines 247-266: a failed swap posts the failure notice and returns.
SellSwapFails(o) ==
    /\ pc[o] = "sell_swap"
    /\ notices' = [notices EXCEPT ![o] = Append(@, "failed_deleted")]
    /\ pc' = [pc EXCEPT ![o] = "failed"]
    /\ ThreadFrame
    /\ Works
    /\ UNCHANGED <<finished, locals, token, order_stored, db_open>>

\* SellSwapSucceeds with the token's effective buy price cleared by the sale.
SellSwapSucceeds_clears(o) ==
    /\ pc[o] = "sell_swap"
    /\ balance >= amount[o]
    /\ balance' = balance - amount[o]
    /\ effective_buy_price' = None
    /\ stored_buy_price' = None
    /\ pc' = [pc EXCEPT ![o] = "sell_report"]
    /\ ThreadFrame
    /\ Works
    /\ UNCHANGED <<finished, locals, order_stored, db_open, notices>>

\* sell, lines 247-254: the swap succeeds; the wallet holds the tokens sold.
SellSwapSucceeds(o) ==
    /\ pc[o] = "sell_swap"
    /\ balance >= amount[o]
    /\ balance' = balance - amount[o]
    /\ pc' = [pc EXCEPT ![o] = "sell_report"]
    /\ ThreadFrame
    /\ Works
    /\ UNCHANGED <<finished, locals, effective_buy_price, stored_buy_price,
                   order_stored, db_open, notices>>

\* sell, lines 267-283: amount / balance_before raises on a zero balance and
\* ends the thread; otherwise the success notices are posted.
SellReport(o) ==
    /\ pc[o] = "sell_report"
    /\ IF balance_before[o] = 0
       THEN /\ pc' = [pc EXCEPT ![o] = "raised"]
            /\ UNCHANGED notices
       ELSE /\ pc' = [pc EXCEPT ![o] = "remove"]
            /\ notices' = [notices EXCEPT ![o] = @ \o <<"closing", "got">>]
    /\ ThreadFrame
    /\ Works
    /\ UNCHANGED <<finished, locals, token, order_stored, db_open>>

\* ---------------------------------------------------------- remove_order
\* remove_order, line 320: db.connect().
RemoveConnect(o) ==
    /\ pc[o] = "remove"
    /\ db_open' = [db_open EXCEPT ![o] = @ + 1]
    /\ pc' = [pc EXCEPT ![o] = "remove_delete"]
    /\ ThreadFrame
    /\ Works
    /\ UNCHANGED <<finished, locals, token, order_stored, notices>>

\* RemoveDelete with the connection closed only when the delete did not raise.
RemoveDelete_leaks(o) ==
    /\ pc[o] = "remove_delete"
    /\ \E deleted \in BOOLEAN :
          /\ order_stored' = [order_stored EXCEPT ![o] = IF deleted THEN FALSE ELSE @]
          /\ db_open' = [db_open EXCEPT ![o] = IF deleted THEN @ - 1 ELSE @]
          /\ IF deleted THEN Works ELSE Fails
    /\ pc' = [pc EXCEPT ![o] = "finish"]
    /\ ThreadFrame
    /\ UNCHANGED <<finished, locals, token, notices>>

\* remove_order, lines 321-326: delete_instance() deletes the record, or raises
\* and is logged; the connection is closed either way.
RemoveDelete(o) ==
    /\ pc[o] = "remove_delete"
    /\ \E deleted \in BOOLEAN :
          /\ order_stored' = [order_stored EXCEPT ![o] = IF deleted THEN FALSE ELSE @]
          /\ IF deleted THEN Works ELSE Fails
    /\ db_open' = [db_open EXCEPT ![o] = @ - 1]
    /\ pc' = [pc EXCEPT ![o] = "finish"]
    /\ ThreadFrame
    /\ UNCHANGED <<finished, locals, token, notices>>

\* buy, line 243 and sell, line 285: self.finished = True.
Finish(o) ==
    /\ pc[o] = "finish"
    /\ finished' = [finished EXCEPT ![o] = TRUE]
    /\ pc' = [pc EXCEPT ![o] = "done"]
    /\ ThreadFrame
    /\ Works
    /\ UNCHANGED <<locals, token, order_stored, db_open, notices>>

\* ------------------------------------------------------------------ Next
\* A price sample is evaluated by an order, or a thread takes its next step.
Next ==
    \/ PriceUpdate
    \/ \E o \in orders : BuyRead(o)
    \/ \E o \in orders : BuySwapFails(o)
    \/ \E o \in orders : BuySwapSucceeds(o)
    \/ \E o \in orders : BuySave(o)
    \/ \E o \in orders : BuySaveFails(o)
    \/ \E o \in orders : BuyClose(o)
    \/ \E o \in orders : BuyApprove(o)
    \/ \E o \in orders : SellRead(o)
    \/ \E o \in orders : SellSwapFails(o)
    \/ \E o \in orders : SellSwapSucceeds(o)
    \/ \E o \in orders : SellReport(o)
    \/ \E o \in orders : RemoveConnect(o)
    \/ \E o \in orders : RemoveDelete(o)
    \/ \E o \in orders : Finish(o)

Spec == Init /\ [][Next]_vars

\* ----------------------------------------------------------- status report
\* __str__, line 43: the order id is underlined when min_price or max_price is
\* truthy, that is when the order tracks an extreme.
Underlined(o) == Truthy(min_price[o]) \/ Truthy(max_price[o])

\* The line of the report for an order that is, or is not, underlined.
Line(underlined) == IF underlined THEN "tracking" ELSE "plain"

\* get_token_status, lines 357-359: the sort key of an order, the limit price
\* or a large value for an order with no (or a zero) limit.
SortKey(o) == IF Truthy(limit_price[o]) THEN limit_price[o] ELSE MaxPrice + 1

\* Order a comes before order b in orders_sorted (descending key, stable).
SortedBefore(a, b) == SortKey(a) > SortKey(b) \/ (SortKey(a) = SortKey(b) /\ a < b)

\* What the reporter leaves alone.
StatusFrame ==
    UNCHANGED <<config, runstate, pc, threads, locals, token, order_stored, db_open,
                notices, path, start, faults, callers>>

\* get_token_status, lines 322-343: the report is started; the calls to the
\* network for the price and the balances are made.
StatusStart ==
    /\ status_pc \in {"idle", "done"}
    /\ status_pc' = "building"
    /\ status' = [o \in orders |-> "unread"]
    /\ at_start' = [o \in orders |-> Underlined(o)]
    /\ StatusFrame

\* get_token_status, line 360: str(order) of the next order of orders_sorted.
StatusRead(o) ==
    /\ status_pc = "building"
    /\ status[o] = "unread"
    /\ \A a \in orders : SortedBefore(a, o) => status[a] # "unread"
    /\ status' = [status EXCEPT ![o] = Line(Underlined(o))]
    /\ UNCHANGED <<status_pc, at_start>>
    /\ StatusFrame

\* get_token_status, lines 361-364: the message is put together and returned.
StatusEnd ==
    /\ status_pc = "building"
    /\ \A o \in orders : status[o] # "unread"
    /\ status_pc' = "done"
    /\ UNCHANGED <<status, at_start>>
    /\ StatusFrame

\* The bot with its status reports: reports are built while price samples are
\* evaluated and executions run.
NextStatus ==
    \/ Next
    \/ StatusStart
    \/ \E o \in orders : StatusRead(o)
    \/ StatusEnd

SpecStatus == Init /\ [][NextStatus]_vars

\* ------------------------------------------------- overlapping price_update
\* price_update, lines 79-80, as a step of its own: caller c finds the order
\* inactive and returns, or passes the test.
PriceUpdateTest(c, o) ==
    /\ callers[c] = None
    /\ IF Ignores(o)
       THEN Skip(o, IF finished[o] THEN "finished" ELSE "inactive") /\ UNCHANGED callers
       ELSE /\ callers' = [callers EXCEPT ![c] = o]
            /\ UNCHANGED <<active, min_price, max_price, notices, threads, pc, path>>
    /\ UNCHANGED <<config, finished, locals, token, order_stored, db_open, start, faults,
                   report>>

\* price_update, lines 81-85: the caller that passed the test evaluates the
\* sample, whatever has become of active since.
PriceUpdateEvaluate(c) ==
    /\ callers[c] # None
    /\ LET o == callers[c]
       IN  \E sell_price, buy_price \in 0..MaxPrice :
               IF type[o] = "buy" THEN price_update_buy(o, buy_price)
               ELSE price_update_sell(o, sell_price)
    /\ callers' = [callers EXCEPT ![c] = None]
    /\ UNCHANGED <<config, finished, locals, token, order_stored, db_open, start, faults,
                   report>>

\* The watchers with price_update calls that may overlap; the executions they
\* start are counted and left unscheduled.
NextOverlap ==
    \/ \E c \in Callers : \E o \in orders : PriceUpdateTest(c, o)
    \/ \E c \in Callers : PriceUpdateEvaluate(c)

SpecOverlap == Init /\ [][NextOverlap]_vars

\* ================================================================ claims
\* The quote an order reads from a sample: the buy quote for a buy order, the
\* sell quote for a sell order.
Quote(o, sell_price, buy_price) == IF type[o] = "buy" THEN buy_price ELSE sell_price

\* The sample starts an execution of order o in this step.
Triggers(o) == threads'[o] = threads[o] + 1

\* Nothing of order o but the record of the return path changes in this step.
OrderUntouched(o) ==
    /\ active'[o] = active[o]
    /\ finished'[o] = finished[o]
    /\ min_price'[o] = min_price[o]
    /\ max_price'[o] = max_price[o]
    /\ threads'[o] = threads[o]
    /\ pc'[o] = pc[o]
    /\ notices'[o] = notices[o]

Range(seq) == {seq[i] : i \in 1..Len(seq)}

\* ---------------------------------------------------------------- C1
\* The step is a price_update of order o.
DeliveredTo(o) == \E s, b \in Quotes(o) : price_update(o, s, b)

\* C1: with one price_update evaluation of an order at a time, at most one
\* execution thread is ever started for the order; a thread is started with
\* active already cleared, and a sample delivered while active is false starts
\* nothing and changes nothing of the order or of the token.
C1_AtMostOneExecution ==
    /\ [](\A o \in orders : threads[o] <= 1)
    /\ [][\A o \in orders :
            /\ Triggers(o) => active[o] /\ ~active'[o]
            /\ ~active[o] /\ DeliveredTo(o) =>
                  OrderUntouched(o) /\ UNCHANGED <<token, order_stored, db_open>>
         ]_vars

\* An order that triggered once and was then handed a further sample, ignored.
C1_Witness ==
    \E o \in orders : threads[o] = 1 /\ ~active[o] /\ path[o] = "inactive"

\* ---------------------------------------------------------------- C2
\* Both orders are buys whose swap succeeded and whose price was saved.
BothBought ==
    /\ orders = OrderIds
    /\ \A o \in orders :
          /\ type[o] = "buy"
          /\ pc[o] \in {"buy_close", "buy_approve", "remove", "remove_delete",
                        "finish", "done"}
          /\ "price_update_failed" \notin Range(notices[o])

\* The effective buy price after the buy of order a, then the buy of order b,
\* each run alone, with the tokens the swaps returned.
OneAfterTheOther(a, b) ==
    LET first == NewBuyPrice(start_price, start_balance, tokens_out[a], EffectivePrice(a))
    IN  NewBuyPrice(first, start_balance + tokens_out[a], tokens_out[b], EffectivePrice(b))

\* C2: after two concurrent buys of the same token have both succeeded, the
\* token's effective buy price is the one the two buys give when run one after
\* the other, in one of the two orders.
C2_NoLostUpdate ==
    BothBought =>
        /\ effective_buy_price \in {OneAfterTheOther(1, 2), OneAfterTheOther(2, 1)}
        /\ stored_buy_price = effective_buy_price

\* A pair of orders whose two buys overlapped and were both saved.
C2_Overlap ==
    /\ BothBought
    /\ buy_price_before[1] = buy_price_before[2]
    /\ balance_before[1] = balance_before[2]

\* ---------------------------------------------------------------- C3
\* An order that triggers on its first sample with a quote: no trailing stop,
\* and not a buy with mode above.
PlainTrigger(o) == trailing_stop[o] = None /\ ~(type[o] = "buy" /\ above[o])

\* C3 as stated: every order with no limit price triggers on the first sample
\* whose relevant quote is not zero.
C3_NoLimitTriggers ==
    [][\A o \in orders : \A s, b \in 0..MaxPrice :
          /\ active[o]
          /\ limit_price[o] = None
          /\ Quote(o, s, b) # 0
          /\ price_update(o, s, b)
          => Triggers(o) /\ ~active'[o] /\ pc'[o] = type[o]
      ]_vars

\* C3, amended: an order with no limit price and no trailing stop, other than a
\* buy with mode above, triggers on the first sample whose relevant quote is
\* not zero: on that sample active becomes false and the thread is started.
C3_PlainNoLimitTriggers ==
    [][\A o \in orders : \A s, b \in 0..MaxPrice :
          /\ active[o]
          /\ limit_price[o] = None
          /\ PlainTrigger(o)
          /\ Quote(o, s, b) # 0
          /\ price_update(o, s, b)
          => Triggers(o) /\ ~active'[o] /\ pc'[o] = type[o]
      ]_vars

\* A sell/below order with no limit price that triggered and whose thread has
\* not run yet.
C3_Witness ==
    \E o \in orders :
        /\ limit_price[o] = None /\ PlainTrigger(o)
        /\ type[o] = "sell" /\ ~above[o]
        /\ path[o] = "triggered" /\ threads[o] = 1 /\ pc[o] = "sell"

\* ---------------------------------------------------------------- C4
\* A stop-loss order: sell, mode below, a limit price, no trailing stop.
StopLoss(o) ==
    type[o] = "sell" /\ ~above[o] /\ limit_price[o] # None /\ trailing_stop[o] = None

\* C4 as stated: a stop-loss order with limit L triggers on a sample exactly
\* when the sell quote is <= L, so on the first such sample and none before.
C4_StopLossAtOrBelowLimit ==
    [][\A o \in orders : \A s, b \in 0..MaxPrice :
          active[o] /\ StopLoss(o) /\ price_update(o, s, b)
          => (Triggers(o) <=> s <= limit_price[o])
      ]_vars

\* C4, amended: a stop-loss order with limit L triggers on a sample exactly
\* when the sell quote is not zero and <= L, so on the first such sample and
\* on none before it.
C4_StopLossNonZeroAtOrBelowLimit ==
    [][\A o \in orders : \A s, b \in 0..MaxPrice :
          active[o] /\ StopLoss(o) /\ price_update(o, s, b)
          => /\ Triggers(o) <=> (s # 0 /\ s <= limit_price[o])
             /\ Triggers(o) => ~active'[o]
             /\ ~Triggers(o) => OrderUntouched(o)
      ]_vars

\* A stop-loss order that triggered.
C4_Witness ==
    \E o \in orders : StopLoss(o) /\ path[o] = "triggered" /\ threads[o] = 1

\* ---------------------------------------------------------------- C5
\* A trailing sell: sell, mode above, a trailing stop.
TrailingSell(o) == type[o] = "sell" /\ above[o] /\ trailing_stop[o] # None

\* (1 - quote / max) * 100 > T, in exact arithmetic.
DropOver(quote, max, T) == (max - quote) * 100 > T * max

\* C5 as stated: the tracked maximum never decreases while the order is active,
\* and the order triggers on a sample exactly when the drop of the sell quote
\* from the maximum tracked before the sample is over T percent.
C5_TrailingSell ==
    [][\A o \in orders : active[o] /\ TrailingSell(o) =>
          /\ max_price[o] # None => max_price'[o] >= max_price[o]
          /\ \A s, b \in 0..MaxPrice : price_update(o, s, b) =>
                (Triggers(o) <=>
                    /\ max_price[o] # None
                    /\ DropOver(s, max_price[o], trailing_stop[o]))
      ]_vars

\* C5, amended: the tracked maximum never decreases while the order is active,
\* and the order triggers on a sample exactly when the sell quote is not zero
\* and its drop from the maximum tracked before the sample is over T percent.
C5_TrailingSellNonZero ==
    [][\A o \in orders : active[o] /\ TrailingSell(o) =>
          /\ max_price[o] # None => max_price'[o] >= max_price[o]
          /\ \A s, b \in 0..MaxPrice : price_update(o, s, b) =>
                (Triggers(o) <=>
                    /\ s # 0
                    /\ max_price[o] # None
                    /\ DropOver(s, max_price[o], trailing_stop[o]))
      ]_vars

\* A trailing sell that tracked a maximum and triggered on a drop from it.
C5_Witness ==
    \E o \in orders :
        /\ TrailingSell(o) /\ max_price[o] # None
        /\ path[o] = "triggered" /\ threads[o] = 1

\* ---------------------------------------------------------------- C6
\* A trailing buy: buy, mode below, a trailing stop.
TrailingBuy(o) == type[o] = "buy" /\ ~above[o] /\ trailing_stop[o] # None

\* (quote / min - 1) * 100 > T, in exact arithmetic.
RiseOver(quote, min, T) == (quote - min) * 100 > T * min

\* C6: the tracked minimum of a trailing buy never increases while the order is
\* active, and the order triggers on a sample exactly when the rise of the buy
\* quote from the minimum tracked before the sample is over T percent.
C6_TrailingBuy ==
    [][\A o \in orders : active[o] /\ TrailingBuy(o) =>
          /\ min_price[o] # None =>
                min_price'[o] # None /\ min_price'[o] <= min_price[o]
          /\ \A s, b \in 0..MaxPrice : price_update(o, s, b) =>
                (Triggers(o) <=>
                    /\ min_price[o] # None
                    /\ RiseOver(b, min_price[o], trailing_stop[o]))
      ]_vars

\* A trailing buy that tracked a minimum and triggered on a rise from it.
C6_Witness ==
    \E o \in orders :
        /\ TrailingBuy(o) /\ min_price[o] # None
        /\ path[o] = "triggered" /\ threads[o] = 1

\* ---------------------------------------------------------------- C7
\* C7: once finished is true it stays true, active stays false, and no step, a
\* price sample included, changes the run state of the order or starts a
\* second execution.
C7_FinishedIsTerminal ==
    /\ [](\A o \in orders : finished[o] => ~active[o] /\ threads[o] = 1)
    /\ [][\A o \in orders : finished[o] =>
            finished'[o] /\ ~active'[o] /\ OrderUntouched(o)
         ]_vars

\* A finished order that was handed a sample after it finished.
C7_Witness ==
    \E o \in orders : finished[o] /\ path[o] = "finished" /\ threads[o] = 1

\* ---------------------------------------------------------------- C8
\* The swap of order o returned failure: the failure notice was posted.
SwapFailed(o) == "failed_deleted" \in Range(notices[o])

\* C8: after the swap of a triggered order returned failure, in every later
\* state active and finished are false and the record is still in the store;
\* the execution of the order has not changed the token's effective buy price
\* and takes no further step, and a later sample changes nothing of the order.
C8_FailedSwapLeavesOrderOrphaned ==
    /\ [](\A o \in orders : SwapFailed(o) =>
            /\ ~active[o] /\ ~finished[o] /\ order_stored[o]
            /\ pc[o] = "failed" /\ threads[o] = 1 /\ db_open[o] = 0
            /\ orders = {o} =>
                  effective_buy_price = start_price /\ stored_buy_price = start_price)
    /\ [][\A o \in orders :
            /\ SwapFailed(o) => OrderUntouched(o)
            /\ ~SwapFailed(o) /\ SwapFailed(o)' =>
                  UNCHANGED <<effective_buy_price, stored_buy_price, order_stored>>
         ]_vars

\* An order whose swap failed and that was handed a sample afterwards.
C8_Witness ==
    \E o \in orders : SwapFailed(o) /\ pc[o] = "failed" /\ path[o] = "inactive"

\* ---------------------------------------------------------------- C9
\* The execution of order o is in flight: started and not yet ended.
InFlight(o) == pc[o] \notin {"idle", "done", "failed", "raised"}

C10_ZeroQuoteSkipped ==
    [][\A o \in orders : \A s, b \in 0..MaxPrice :
          active[o] /\ Quote(o, s, b) = 0 /\ price_update(o, s, b)
          => OrderUntouched(o) /\ path'[o] = "zero"
      ]_vars

\* An active order that tracks an extreme and was handed a zero quote.
C10_Witness ==
    \E o \in orders :
        /\ active[o] /\ path[o] = "zero"
        /\ (min_price[o] # None \/ max_price[o] # None)

\* --------------------------------------------------------------- C11
\* A limit buy: buy, mode below, a limit price, no trailing stop.
LimitBuy(o) ==
    type[o] = "buy" /\ ~above[o] /\ limit_price[o] # None /\ trailing_stop[o] = None

\* A take profit: sell, mode above, a limit price, no trailing stop.
TakeProfit(o) ==
    type[o] = "sell" /\ above[o] /\ limit_price[o] # None /\ trailing_stop[o] = None

\* C11: without a trailing stop, a buy/below order with limit L triggers on a
\* sample with a non-zero quote exactly when the buy quote is <= L, and a
\* sell/above order with limit L exactly when the sell quote is >= L; so each
\* triggers on the first such sample, and a sample that does not trigger
\* leaves the order as it was.
C11_LimitTriggers ==
    [][\A o \in orders : \A s, b \in 0..MaxPrice :
          active[o] /\ Quote(o, s, b) # 0 /\ price_update(o, s, b) =>
              /\ LimitBuy(o) =>
                    /\ Triggers(o) <=> b <= limit_price[o]
                    /\ Triggers(o) => ~active'[o]
                    /\ ~Triggers(o) => OrderUntouched(o)
              /\ TakeProfit(o) =>
                    /\ Triggers(o) <=> s >= limit_price[o]
                    /\ Triggers(o) => ~active'[o]
                    /\ ~Triggers(o) => OrderUntouched(o)
      ]_vars

\* A limit buy that triggered.
C11_Witness ==
    \E o \in orders : LimitBuy(o) /\ path[o] = "triggered" /\ threads[o] = 1

\* --------------------------------------------------------------- C12
\* C12: a buy order with mode above, with or without a limit price or a
\* trailing stop, is never changed by a sample: it stays active, starts no
\* thread, tracks no extreme and posts no notice.
C12_BuyAboveNoOp ==
    /\ [](\A o \in orders : type[o] = "buy" /\ above[o] =>
            /\ active[o] /\ ~finished[o] /\ threads[o] = 0 /\ pc[o] = "idle"
            /\ min_price[o] = None /\ max_price[o] = None
            /\ notices[o] = <<>>)
    /\ [][\A o \in orders : type[o] = "buy" /\ above[o] => OrderUntouched(o)]_vars

\* A buy/above order with a limit and a trailing stop that was handed a sample
\* with a quote and held.
C12_Witness ==
    \E o \in orders :
        /\ type[o] = "buy" /\ above[o]
        /\ limit_price[o] # None /\ Truthy(trailing_stop[o])
        /\ path[o] = "hold"

\* --------------------------------------------------------------- C13
\* The quote meets the limit condition of trailing order o (an order without
\* a limit meets it on every quote).
MeetsLimit(o, quote) ==
    \/ limit_price[o] = None
    \/ type[o] = "buy" /\ quote <= limit_price[o]
    \/ type[o] = "sell" /\ quote >= limit_price[o]

\* The number of notices of one kind in a sequence of notices.
Count(seq, kind) == Cardinality({i \in 1..Len(seq) : seq[i] = kind})

\* C13: a trailing-stop order (buy/below or sell/above with a trailing stop
\* configured) that is not tracking starts tracking on a sample exactly when
\* the quote is non-zero and meets the limit condition, hence on the first
\* such sample and on no earlier one; on that sample the tracked extreme
\* becomes the quote, the order does not trigger and the activation notice is
\* posted; any other sample leaves the order as it was; and the activation
\* notice has been posted once if the order tracks and never if it does not.
C13_TrackingStarts ==
    /\ [][\A o \in orders : \A s, b \in 0..MaxPrice :
            /\ active[o]
            /\ TrailingBuy(o) /\ min_price[o] = None
            /\ price_update(o, s, b)
            => IF b # 0 /\ MeetsLimit(o, b)
               THEN /\ min_price'[o] = b
                    /\ ~Triggers(o) /\ active'[o]
                    /\ notices'[o] = Append(notices[o], "activated")
               ELSE OrderUntouched(o)
        ]_vars
    /\ [][\A o \in orders : \A s, b \in 0..MaxPrice :
            /\ active[o]
            /\ TrailingSell(o) /\ max_price[o] = None
            /\ price_update(o, s, b)
            => IF s # 0 /\ MeetsLimit(o, s)
               THEN /\ max_price'[o] = s
                    /\ ~Triggers(o) /\ active'[o]
                    /\ notices'[o] = Append(notices[o], "activated")
               ELSE OrderUntouched(o)
        ]_vars
    /\ [](\A o \in orders :
            /\ TrailingBuy(o) =>
                 Count(notices[o], "activated") = IF min_price[o] = None THEN 0 ELSE 1
            /\ TrailingSell(o) =>
                 Count(notices[o], "activated") = IF max_price[o] = None THEN 0 ELSE 1)

\* --------------------------------------------------------------- C14
\* C14: for a tracking trailing-stop order a sample with a new minimum (buy) or
\* a new maximum (sell) makes the quote the tracked extreme and leaves the
\* order active with no execution started; no sample both changes a tracked
\* extreme and triggers.
C14_MoveSuppressesTrigger ==
    [][\A o \in orders : \A s, b \in 0..MaxPrice :
          active[o] /\ price_update(o, s, b) =>
              /\ TrailingBuy(o) /\ min_price[o] # None /\ b # 0 /\ b < min_price[o]
                 => min_price'[o] = b /\ ~Triggers(o) /\ active'[o]
              /\ TrailingSell(o) /\ max_price[o] # None /\ s > max_price[o]
                 => max_price'[o] = s /\ ~Triggers(o) /\ active'[o]
              /\ min_price'[o] # min_price[o] \/ max_price'[o] # max_price[o]
                 => ~Triggers(o) /\ active'[o]
      ]_vars

\* A tracking buy order whose minimum was lowered by the last sample.
C14_Witness ==
    \E o \in orders :
        /\ TrailingBuy(o) /\ path[o] = "moved"
        /\ min_price[o] # None /\ active[o] /\ threads[o] = 0
        /\ Count(notices[o], "activated") = 1

\* --------------------------------------------------------------- C15
\* Order o is a buy whose swap succeeded and whose price update was saved.
Bought(o) ==
    /\ type[o] = "buy"
    /\ pc[o] \in {"buy_close", "buy_approve", "remove", "remove_delete", "finish", "done"}
    /\ "price_update_failed" \notin Range(notices[o])

\* x is the quotient n / d to the nearest unit of the decimal representation.
Nearest(x, n, d) ==
    LET diff == x * d - n
    IN  2 * (IF diff < 0 THEN 0 - diff ELSE diff) <= d

\* C15: after a successful buy that ran alone on its token, with
\* effectivePrice = requestedAmount / tokensReceived, the effective buy price,
\* in memory and in the store, is effectivePrice when the token had no previous
\* price, and otherwise (balanceBefore * previousPrice + tokensReceived *
\* effectivePrice) / (balanceBefore + tokensReceived), which lies between the
\* previous price and effectivePrice.
C15_WeightedAverage ==
    \A o \in orders :
        orders = {o} /\ Bought(o) =>
            LET out == tokens_out[o]
                price == EffectivePrice(o)
                lower == IF start_price < price THEN start_price ELSE price
                upper == IF start_price < price THEN price ELSE start_price
            IN  /\ Nearest(price, amount[o] * DecUnit, out)
                /\ stored_buy_price = effective_buy_price
                /\ start_price = None => effective_buy_price = price
                /\ start_price # None =>
                      /\ Nearest(effective_buy_price,
                                 start_balance * start_price + out * price,
                                 start_balance + out)
                      /\ lower <= effective_buy_price
                      /\ effective_buy_price <= upper

\* A buy on a token with a balance and a previous price, saved with a price
\* strictly between the previous and the effective price.
C15_Witness ==
    \E o \in orders :
        /\ orders = {o} /\ Bought(o) /\ finished[o]
        /\ start_price # None /\ start_balance > 0
        /\ effective_buy_price # start_price
        /\ effective_buy_price # EffectivePrice(o)

\* --------------------------------------------------------------- C16
\* C16: no step of a sell execution, successful or failed, changes the token's
\* effective buy price in memory or in the store; the price changes only in
\* the price update of a buy whose swap succeeded, and the store only when that
\* update is saved; a token with a single sell order keeps its price for ever.
C16_SellKeepsBuyPrice ==
    /\ [][\A o \in orders :
            type[o] = "sell" /\ pc'[o] # pc[o] =>
                UNCHANGED <<effective_buy_price, stored_buy_price>>
        ]_vars
    /\ [][effective_buy_price' # effective_buy_price
            \/ stored_buy_price' # stored_buy_price =>
                \E o \in orders :
                    /\ type[o] = "buy" /\ tokens_out[o] # None
                    /\ pc[o] = "buy_save" /\ pc'[o] = "buy_close"
                    /\ stored_buy_price' # stored_buy_price =>
                          /\ notices'[o] = notices[o]
                          /\ stored_buy_price' = effective_buy_price'
        ]_vars
    /\ [](\A o \in orders :
            orders = {o} /\ type[o] = "sell" =>
                effective_buy_price = start_price /\ stored_buy_price = start_price)

\* A sell that succeeded and finished on a token that has an effective buy
\* price, the price still the one the token started with.
C16_Witness ==
    \E o \in orders :
        /\ type[o] = "sell" /\ start_price # None
        /\ effective_buy_price = start_price
        /\ pc[o] = "done" /\ "got" \in Range(notices[o])

\* --------------------------------------------------------------- C17
\* The number of failures the notices of the orders report: failed price
\* updates and failed approvals.
ReportedFaults(S) ==
    LET RECURSIVE Sum(_)
        Sum(T) == IF T = {} THEN 0
                  ELSE LET o == CHOOSE x \in T : TRUE
                       IN  Count(notices[o], "price_update_failed")
                           + Count(notices[o], "approval_failed")
                           + Sum(T \ {o})
    IN  Sum(S)

\* No delete of an order record has raised: every failure so far is one the
\* notices report.
NoDeleteRaised == faults = ReportedFaults(orders)

\* Order o is past the approval step of buy: remove_order is being run or has
\* been run.
Removing(o) == pc[o] \in {"remove", "remove_delete", "finish", "done"}

\* C17: a failed approval follows a successful buy swap and is posted as a
\* notice; the buy goes on to remove_order and to finished: when the thread has
\* ended the order is finished, and its record is removed unless the delete
\* itself raised. The approval is requested exactly when net.is_approved
\* answered no, at most once, and never after a failed swap.
C17_ApprovalFailureKeepsBuy ==
    /\ [](\A o \in orders :
            "approval_failed" \in Range(notices[o]) =>
                /\ type[o] = "buy" /\ tokens_out[o] # None /\ ~SwapFailed(o)
                /\ "got" \in Range(notices[o])
                /\ Removing(o)
                /\ pc[o] = "done" => finished[o]
                /\ pc[o] \in {"finish", "done"} /\ NoDeleteRaised => ~order_stored[o])
    /\ [](\A o \in orders :
            /\ "approving" \in Range(notices[o]) <=> is_approved[o] = 0
            /\ Count(notices[o], "approving") <= 1
            /\ SwapFailed(o) => is_approved[o] = None)
    /\ [][\A o \in orders :
            Count(notices'[o], "approval_failed") > Count(notices[o], "approval_failed")
            => /\ pc[o] = "buy_approve" /\ pc'[o] = "remove"
               /\ UNCHANGED <<finished, token, order_stored, db_open>>
        ]_vars

\* A buy whose approval failed, finished with its record removed.
C17_Witness ==
    \E o \in orders :
        /\ "approval_failed" \in Range(notices[o])
        /\ pc[o] = "done" /\ finished[o] /\ ~order_stored[o]

\* --------------------------------------------------------------- C18
\* The price update of the buy of order o failed and was reported.
SaveFailed(o) == "price_update_failed" \in Range(notices[o])

\* C18: when the price update fails after a successful buy swap, the failure
\* is posted as a notice, the step undoes nothing of the swap (the balance
\* keeps the tokens received) and the buy goes on: it closes the connection,
\* posts the success notices, runs remove_order and ends finished, the record
\* removed unless the delete itself raised.
C18_SaveFailureKeepsBuy ==
    /\ [](\A o \in orders :
            SaveFailed(o) =>
                /\ type[o] = "buy" /\ tokens_out[o] # None /\ ~SwapFailed(o)
                /\ pc[o] \in {"buy_close", "buy_approve"} \/ Removing(o)
                /\ pc[o] # "buy_close" => "got" \in Range(notices[o])
                /\ orders = {o} => balance = start_balance + tokens_out[o]
                /\ pc[o] = "done" => finished[o]
                /\ pc[o] \in {"finish", "done"} /\ NoDeleteRaised => ~order_stored[o])
    /\ [][\A o \in orders :
            SaveFailed(o)' /\ ~SaveFailed(o)
            => /\ pc[o] = "buy_save" /\ pc'[o] = "buy_close"
               /\ UNCHANGED <<finished, balance, stored_buy_price, order_stored>>
        ]_vars

\* A buy whose price update failed, finished with its record removed.
C18_Witness ==
    \E o \in orders :
        /\ SaveFailed(o)
        /\ pc[o] = "done" /\ finished[o] /\ ~order_stored[o]
        /\ balance > start_balance

\* --------------------------------------------------------------- C19
\* C19 as stated: after a buy that ran alone on its token and whose price
\* update failed, the token's effective buy price in memory is the one from
\* before the buy.
C19_InMemoryUpdateLost ==
    \A o \in orders :
        orders = {o} /\ SaveFailed(o) => effective_buy_price = start_price

\* C19 amended: after a buy that ran alone on its token and whose price update
\* failed, the effective buy price in the store is the one from before the
\* buy; the price in memory is that one when the failure came before the
\* assignment, and the newly computed price when save() raised after it.
C19_StoredUpdateLost ==
    \A o \in orders :
        orders = {o} /\ SaveFailed(o) =>
            /\ stored_buy_price = start_price
            /\ effective_buy_price \in
                  {start_price,
                   NewBuyPrice(start_price, start_balance, tokens_out[o], EffectivePrice(o))}

\* A buy whose save() raised: the price in memory is the new one, the price in
\* the store the old one.
C19_Witness ==
    \E o \in orders :
        /\ orders = {o} /\ SaveFailed(o) /\ pc[o] = "done"
        /\ stored_buy_price = start_price
        /\ effective_buy_price # stored_buy_price

\* --------------------------------------------------------------- C20
\* C20: an execution holds at most one store connection, and holds one only
\* between the connect of buy's price update and its close and between the
\* connect of remove_order and its close: the close follows whether the update
\* or the delete succeeded or raised, and an execution that has ended, by
\* finishing, after a failed swap or by an exception, holds none.
C20_ConnectionsClosed ==
    /\ [](\A o \in orders :
            /\ db_open[o] \in {0, 1}
            /\ db_open[o] = 1 <=> pc[o] \in {"buy_save", "buy_close", "remove_delete"}
            /\ pc[o] \in {"idle", "done", "failed", "raised"} => db_open[o] = 0)
    /\ [][\A o \in orders :
            db_open[o] = 1 /\ pc[o] \in {"buy_close", "remove_delete"} /\ pc'[o] # pc[o]
            => db_open'[o] = 0
        ]_vars

\* An execution whose delete raised, ended with its connection closed.
C20_Witness ==
    \E o \in orders :
        pc[o] = "done" /\ order_stored[o] /\ db_open[o] = 0

\* --------------------------------------------------------------- C21
\* The step is a failure in the execution of order o: a failed swap, or a
\* failed price update, approval or delete of the order record.
FailureOf(o) ==
    /\ pc'[o] # pc[o]
    /\ \/ pc[o] \in {"buy_swap", "sell_swap"} /\ pc'[o] = "failed"
       \/ faults' > faults

\* C21: every failure during an execution (swap, price update, approval,
\* delete of the order record) posts a notice in the step that fails.
C21_EveryFailureNoticed ==
    [][\A o \in orders : FailureOf(o) => Len(notices'[o]) > Len(notices[o])]_vars

\* --------------------------------------------------------------- C22
\* C22: finished is set only after remove_order has run, by the one execution
\* of the order, and in every state a finished order has no record in the
\* store.
C22_FinishedMeansRemoved ==
    /\ [](\A o \in orders :
            finished[o] => pc[o] = "done" /\ threads[o] = 1 /\ ~order_stored[o])
    /\ [][\A o \in orders :
            finished'[o] /\ ~finished[o] => pc[o] = "finish" /\ db_open[o] = 0
        ]_vars

\* --------------------------------------------------------------- C23
\* C23: in every state a tracked extreme is defined only on an order with a
\* trailing stop that has posted its activation, on a sample with a quote that
\* met the limit condition: a tracked minimum only on a buy order (mode below)
\* and at or below the limit, a tracked maximum only on a sell order (mode
\* above) and at or above the limit; no order has both.
C23_ExtremeOnlyWhenTracking ==
    \A o \in orders :
        /\ min_price[o] # None =>
              /\ type[o] = "buy" /\ ~above[o]
              /\ trailing_stop[o] # None /\ trailing_stop[o] # 0
              /\ Count(notices[o], "activated") = 1
              /\ min_price[o] > 0
              /\ limit_price[o] # None => min_price[o] <= limit_price[o]
        /\ max_price[o] # None =>
              /\ type[o] = "sell" /\ above[o]
              /\ trailing_stop[o] # None /\ trailing_stop[o] # 0
              /\ Count(notices[o], "activated") = 1
              /\ max_price[o] > 0
              /\ limit_price[o] # None => max_price[o] >= limit_price[o]
        /\ min_price[o] = None \/ max_price[o] = None

\* A buy order with a limit and a trailing stop that tracks a minimum.
C23_Witness ==
    \E o \in orders :
        /\ type[o] = "buy" /\ limit_price[o] # None
        /\ min_price[o] # None /\ min_price[o] < limit_price[o]
        /\ active[o]

\* --------------------------------------------------------------- C25
\* The execution thread of order o can take a step.
ThreadStep(o) ==
    \/ BuyRead(o) \/ BuySwapFails(o) \/ BuySwapSucceeds(o) \/ BuySave(o)
    \/ BuySaveFails(o) \/ BuyClose(o) \/ BuyApprove(o)
    \/ SellRead(o) \/ SellSwapFails(o) \/ SellSwapSucceeds(o) \/ SellReport(o)
    \/ RemoveConnect(o) \/ RemoveDelete(o) \/ Finish(o)

\* The two outcomes of an execution: the swap succeeded and the order is
\* finished; the swap failed, the failure was posted and the order is not
\* finished.
SucceededAndFinished(o) ==
    pc[o] = "done" /\ finished[o] /\ "got" \in Range(notices[o]) /\ ~SwapFailed(o)

FailedAndReported(o) ==
    pc[o] = "failed" /\ ~finished[o] /\ SwapFailed(o)

\* C25: the execution of a triggered order either can take its next step (so
\* that a fairly scheduled thread whose calls return goes on) or has ended in
\* one of the two outcomes; it never ends anywhere else.
C25_ExecutionEnds ==
    \A o \in orders :
        threads[o] >= 1 =>
            \/ ENABLED ThreadStep(o)
            \/ SucceededAndFinished(o)
            \/ FailedAndReported(o)

\* --------------------------------------------------------------- C27
\* Order o has never been changed by a sample: it is active and not finished,
\* has started no execution, tracks no extreme and has posted no notice.
Dormant(o) ==
    /\ active[o] /\ ~finished[o] /\ threads[o] = 0 /\ pc[o] = "idle"
    /\ min_price[o] = None /\ max_price[o] = None
    /\ notices[o] = <<>>

\* C27: a sell order with mode below and a trailing stop configured never
\* triggers and never starts tracking, whatever the samples: in every state it
\* is active with no tracked extreme, and no step changes it.
C27_SellBelowTrailingDormant ==
    /\ [](\A o \in orders :
            type[o] = "sell" /\ ~above[o] /\ trailing_stop[o] # None => Dormant(o))
    /\ [][\A o \in orders :
            type[o] = "sell" /\ ~above[o] /\ trailing_stop[o] # None => OrderUntouched(o)
        ]_vars

\* A sell/below order with a limit and a non-zero trailing stop that was handed
\* a sample with a quote and held.
C27_Witness ==
    \E o \in orders :
        /\ type[o] = "sell" /\ ~above[o]
        /\ limit_price[o] # None /\ Truthy(trailing_stop[o])
        /\ path[o] = "hold"

\* --------------------------------------------------------------- C28
\* C28: an order with a trailing stop of 0 percent, of any direction and mode,
\* with or without a limit, never triggers and never starts tracking: in every
\* state it is active with no tracked extreme, and no step changes it.
C28_ZeroTrailingDormant ==
    /\ [](\A o \in orders : trailing_stop[o] = 0 => Dormant(o))
    /\ [][\A o \in orders : trailing_stop[o] = 0 => OrderUntouched(o)]_vars

\* A sell/above order with a trailing stop of 0 percent and no limit that was
\* handed a sample with a quote and held.
C28_Witness ==
    \E o \in orders :
        /\ trailing_stop[o] = 0 /\ type[o] = "sell" /\ above[o]
        /\ limit_price[o] = None
        /\ path[o] = "hold"

\* --------------------------------------------------------------- C29
\* C29: an order whose execution has posted the notice that says the order was
\* deleted has no record in the store once the execution has ended.
C29_DeletedNoticeMeansRemoved ==
    \A o \in orders :
        "failed_deleted" \in Range(notices[o]) /\ ~InFlight(o) => ~order_stored[o]

\* --------------------------------------------------------------- C24
\* C24: a status report shows the orders of the token as they were at one
\* point in time, the start of the report: every line built so far shows the
\* tracking state its order had when the report was started, so that no change
\* made by a price sample or an execution while the report is built is visible.
C24_StatusIsSnapshot ==
    \A o \in orders :
        status[o] # "unread" => status[o] = Line(at_start[o])

\* --------------------------------------------------------------- C26
\* The callers that have passed the test of active of order o and have not yet
\* evaluated their sample.
Pending(o) == {c \in Callers : callers[c] = o}

\* C26 as stated: with price_update calls that may overlap, at most one
\* execution is started for an order.
C26_AtMostOneWhenOverlapping ==
    \A o \in orders : threads[o] <= 1

\* C26 amended: with price_update calls that may overlap, only a caller that
\* passed the test of active while the order was active starts an execution,
\* and each such caller starts at most one: an active order has started none,
\* a further execution is started only by a caller that passed the test before
\* active was cleared, and the executions started and the callers still
\* inside never outnumber the callers.
C26_OnePerOverlappingCaller ==
    /\ [](\A o \in orders :
            /\ active[o] => threads[o] = 0
            /\ ~active[o] => threads[o] + Cardinality(Pending(o)) <= Cardinality(Callers))
    /\ [][\A o \in orders : \A c \in Callers :
            callers[c] = None /\ callers'[c] = o => active[o]
        ]_vars
    /\ [][\A o \in orders :
            Triggers(o) =>
                /\ \E c \in Pending(o) : callers'[c] = None
                /\ threads[o] >= 1 => ~active[o]
        ]_vars

\* Two executions of one order, started by two callers that both passed the
\* test of active before either cleared it.
C26_Witness ==
    \E o \in orders : threads[o] = 2 /\ Pending(o) = {} /\ ~active[o]
====
